---- MODULE Spec2Model ----
(***************************************************************************)
(* prerender-loader: one render of the loader (src/src/index.js) as a      *)
(* state machine.  Text (template, markup, output) is a sequence of        *)
(* tokens; the sandbox document is a small tree of nodes; values exported  *)
(* by the entry are tagged records.                                        *)
(***************************************************************************)
EXTENDS Integers, Sequences, FiniteSets, TLC

(***************************************************************************)
(* Text tokens                                                             *)
(***************************************************************************)
DT == "<!DOCTYPE html>"
DTLower == "<!doctype html>"
NL == "\n"
MARK == "{{prerender}}"
PH == "<div id='PRERENDER_INJECT'></div>"
CO == "<!--"
CC == "-->"
WO == "<div id='wrapper'>"
WC == "</div>"
DocOpen == "<html><head></head><body>"
DocClose == "</body></html>"
ElP == "<p></p>"
ElQ == "<q></q>"
ElB == "<b></b>"
ElU == "<u></u>"
ElDom == "<div>dom</div>"

RECURSIVE IndexFrom(_, _, _)
IndexFrom(s, tok, i) ==
  IF i > Len(s) THEN 0
  ELSE IF s[i] = tok THEN i
  ELSE IndexFrom(s, tok, i + 1)

\* first index of tok in s, 0 when absent
IndexOf(s, tok) == IndexFrom(s, tok, 1)

\* content.match(PRERENDER_REG): is there a {{prerender}} field
PRERENDER_REG_match(s) == IndexOf(s, MARK) # 0

\* s.replace(PRERENDER_REG, r): the regular expression is not global,
\* only the first field is replaced
PRERENDER_REG_replace(s, r) ==
  LET i == IndexOf(s, MARK)
  IN IF i = 0 THEN s
     ELSE SubSeq(s, 1, i - 1) \o r \o SubSeq(s, i + 1, Len(s))

(***************************************************************************)
(* Sandbox document (jsdom)                                                *)
(***************************************************************************)
NullRef == <<"null", 0>>
BodyRef == <<"body", 0>>

ElemNode(id, tag, kids) == [id |-> id, kind |-> "elem", tag |-> tag, data |-> <<>>, kids |-> kids]
CommentNode(id, data) == [id |-> id, kind |-> "comment", tag |-> CO, data |-> data, kids |-> <<>>]
TextNode(id, tok) == [id |-> id, kind |-> "text", tag |-> tok, data |-> <<>>, kids |-> <<>>]

\* index of the token closing the construct opened at i, Len+1 when the
\* parser reaches the end of input first
CloseIndex(s, i, tok) ==
  LET j == IndexFrom(s, tok, i + 1)
  IN IF j = 0 THEN Len(s) + 1 ELSE j

\* tokens that are character data where they stand
TextTokens == {NL, CC, MARK, "5", "true", "[object Object]", "function(){}"}

RECURSIVE ParseNodes(_, _, _, _)
\* HTML tree construction for the tokens s[i..hi]; node ids are <<src, position>>
ParseNodes(s, i, hi, src) ==
  IF i > hi THEN <<>>
  ELSE IF s[i] = CO THEN
    LET j == IF CloseIndex(s, i, CC) > hi THEN hi + 1 ELSE CloseIndex(s, i, CC)
    IN <<CommentNode(<<src, i>>, SubSeq(s, i + 1, j - 1))>> \o ParseNodes(s, j + 1, hi, src)
  ELSE IF s[i] = WO THEN
    LET j == IF CloseIndex(s, i, WC) > hi THEN hi + 1 ELSE CloseIndex(s, i, WC)
    IN <<ElemNode(<<src, i>>, WO, ParseNodes(s, i + 1, j - 1, src))>> \o ParseNodes(s, j + 1, hi, src)
  ELSE IF s[i] \in {DT, DTLower, WC, DocOpen, DocClose} THEN
    \* a doctype or a stray end tag inside the body is a parse error and is dropped
    ParseNodes(s, i + 1, hi, src)
  ELSE IF s[i] \in TextTokens THEN
    <<TextNode(<<src, i>>, s[i])>> \o ParseNodes(s, i + 1, hi, src)
  ELSE
    <<ElemNode(<<src, i>>, s[i], <<>>)>> \o ParseNodes(s, i + 1, hi, src)

\* new jsdom.JSDOM(markup): a leading doctype becomes the document's doctype
JSDOM(s) ==
  LET hasDt == Len(s) > 0 /\ s[1] \in {DT, DTLower}
  IN [doctype |-> hasDt,
      body |-> ParseNodes(s, IF hasDt THEN 2 ELSE 1, Len(s), "tpl"),
      detached |-> <<>>]

\* template.innerHTML = markup; template.content
ParseFragment(s) == ParseNodes(s, 1, Len(s), "res")

RECURSIVE SerializeNodes(_)
SerializeNodes(ns) ==
  IF ns = <<>> THEN <<>>
  ELSE LET n == Head(ns)
           t == IF n.kind = "comment" THEN <<CO>> \o n.data \o <<CC>>
                ELSE IF n.kind = "elem" /\ n.tag = WO THEN <<WO>> \o SerializeNodes(n.kids) \o <<WC>>
                ELSE IF n.kind = "text" /\ n.tag = CC THEN <<"--&gt;">>
                ELSE <<n.tag>>
       IN t \o SerializeNodes(Tail(ns))

\* dom.serialize()
serialize(dom) ==
  (IF dom.doctype THEN <<DT>> ELSE <<>>) \o <<DocOpen>> \o SerializeNodes(dom.body) \o <<DocClose>>

RECURSIVE FindIndex(_, _, _)
\* position of the node with the given id among ns, 0 when absent
FindIndex(ns, id, i) ==
  IF i > Len(ns) THEN 0
  ELSE IF ns[i].id = id THEN i
  ELSE FindIndex(ns, id, i + 1)

RECURSIVE FindTag(_, _, _)
FindTag(ns, tag, i) ==
  IF i > Len(ns) THEN 0
  ELSE IF ns[i].kind = "elem" /\ ns[i].tag = tag THEN i
  ELSE FindTag(ns, tag, i + 1)

RECURSIVE FindParentOfTag(_, _, _)
\* index in ns of the first element whose children hold an element with the tag
FindParentOfTag(ns, tag, i) ==
  IF i > Len(ns) THEN 0
  ELSE IF ns[i].kind = "elem" /\ FindTag(ns[i].kids, tag, 1) # 0 THEN i
  ELSE FindParentOfTag(ns, tag, i + 1)

RemoveAt(s, i) == SubSeq(s, 1, i - 1) \o SubSeq(s, i + 1, Len(s))
InsertAt(s, i, xs) == SubSeq(s, 1, i - 1) \o xs \o SubSeq(s, i, Len(s))

\* children of the node (or of <body>) the reference names, wherever it lives
ChildrenOf(dom, parent) ==
  IF parent = BodyRef THEN dom.body
  ELSE IF FindIndex(dom.body, parent, 1) # 0 THEN dom.body[FindIndex(dom.body, parent, 1)].kids
  ELSE IF FindIndex(dom.detached, parent, 1) # 0 THEN dom.detached[FindIndex(dom.detached, parent, 1)].kids
  ELSE <<>>

WithChildren(dom, parent, kids) ==
  IF parent = BodyRef THEN [dom EXCEPT !.body = kids]
  ELSE IF FindIndex(dom.body, parent, 1) # 0
    THEN [dom EXCEPT !.body[FindIndex(dom.body, parent, 1)].kids = kids]
  ELSE IF FindIndex(dom.detached, parent, 1) # 0
    THEN [dom EXCEPT !.detached[FindIndex(dom.detached, parent, 1)].kids = kids]
  ELSE dom

\* parent.insertBefore(child, ref) is a NotFoundError when ref is a node that
\* is not a child of parent
CanInsertBefore(dom, parent, ref) ==
  ref = NullRef \/ FindIndex(ChildrenOf(dom, parent), ref, 1) # 0

\* as insertBefore, but the reference node is ignored (appendChild)
insertBeforeAppends(dom, parent, child, ref) ==
  WithChildren(dom, parent, Append(ChildrenOf(dom, parent), child))

insertBefore(dom, parent, child, ref) ==
  LET kids == ChildrenOf(dom, parent)
      at == IF ref = NullRef THEN Len(kids) + 1 ELSE FindIndex(kids, ref, 1)
  IN WithChildren(dom, parent, InsertAt(kids, at, <<child>>))

(***************************************************************************)
(* JavaScript values                                                       *)
(***************************************************************************)
Undef == [tag |-> "undefined", val |-> <<>>]
Null == [tag |-> "null", val |-> <<>>]
Str(t) == [tag |-> "string", val |-> t]
Num(n) == [tag |-> "number", val |-> <<n>>]
Bool(b) == [tag |-> "boolean", val |-> <<b>>]
Err(msg) == [tag |-> "error", val |-> msg]
\* an object literal: its own enumerable properties in enumeration order
Obj(props) == [tag |-> "object", val |-> props]
\* a function: what a call returns or throws and what it does to the document
Fn(ret, mut, throws) == [tag |-> "function", val |-> <<[ret |-> ret, mut |-> mut, throws |-> throws]>>]
\* a promise: how it settles ("fulfil", "reject", "never") and with what
Promise(how, v) == [tag |-> "promise", val |-> <<[how |-> how, v |-> v]>>]

\* ToBoolean
Truthy(v) ==
  CASE v.tag \in {"undefined", "null"} -> FALSE
    [] v.tag = "string" -> v.val # <<>>
    [] v.tag = "number" -> v.val[1] # 0
    [] v.tag = "boolean" -> v.val[1]
    [] OTHER -> TRUE

\* typeof v === 'object' (null is excluded by the truthiness test beside it)
TypeofObject(v) == v.tag \in {"object", "promise", "error"}

\* as HasThen, but no value is taken for an awaitable
HasThenNever(v) == FALSE

\* v.then is truthy
HasThen(v) == v.tag = "promise"

\* ToString, as the innerHTML setter applies it
ToStr(v) ==
  CASE v.tag = "string" -> v.val
    [] v.tag = "number" -> <<"5">>
    [] v.tag = "boolean" -> <<"true">>
    [] v.tag \in {"object", "promise"} -> <<"[object Object]">>
    [] v.tag = "function" -> <<"function(){}">>
    [] OTHER -> v.val

\* exports[key], undefined when the key is absent
RECURSIVE GetProp(_, _)
GetProp(props, key) ==
  IF props = <<>> THEN Undef
  ELSE IF Head(props)[1] = key THEN Head(props)[2]
  ELSE GetProp(Tail(props), key)

RECURSIVE FirstNotEsModule(_)
\* for (const prop in exports) if (prop !== '__esModule') return exports[prop]
FirstNotEsModule(props) ==
  IF props = <<>> THEN Undef
  ELSE IF Head(props)[1] # "__esModule" THEN Head(props)[2]
  ELSE FirstNotEsModule(Tail(props))

\* function BrokenPromise () {}: the awaitable of the sandbox's shims, which
\* never settles and never calls a callback
BrokenPromise == Promise("inert", Undef)

\* BrokenPromise.prototype.then = .catch = .finally = () => new BrokenPromise()
BrokenPromiseMethod == Fn(BrokenPromise, "none", FALSE)

\* enumerable properties, own and inherited, of a value that passed the object
\* test, in for-in order
PropsOf(v) ==
  IF v.tag = "object" THEN v.val
  ELSE IF v = BrokenPromise
  THEN <<<<"then", BrokenPromiseMethod>>, <<"catch", BrokenPromiseMethod>>, <<"finally", BrokenPromiseMethod>>>>
  ELSE <<>>

getBestModuleExport(exports) ==
  IF Truthy(GetProp(PropsOf(exports), "default"))
  THEN GetProp(PropsOf(exports), "default")
  ELSE FirstNotEsModule(PropsOf(exports))

\* JSON.stringify of a string: quoted, line breaks escaped
JSONstringify(s) ==
  <<"\"">> \o [i \in 1..Len(s) |-> IF s[i] = NL THEN "\\n" ELSE s[i]] \o <<"\"">>

stringToModule(str) == <<"export default ">> \o JSONstringify(str)

\* options.as === 'string' || options.string ? stringToModule : String
outputFilter(opts, text) ==
  IF opts.as = "string" \/ opts.string THEN stringToModule(text) ELSE text

\* /^<!DOCTYPE /mi.test(s): with the m flag ^ matches at the start of any line
DoctypeTest(s) ==
  \E i \in 1..Len(s) : s[i] \in {DT, DTLower} /\ (i = 1 \/ s[i - 1] = NL)

(***************************************************************************)
(* Bounds and inputs                                                       *)
(***************************************************************************)
\* longest markup string an entry resolves to, in nodes
MaxMarkup == 2
\* most error diagnostics a nested build reports
MaxErrors == 2
\* most properties of an exported object
MaxProps == 2

Markup(n) == [i \in 1..n |-> IF i % 2 = 1 THEN ElB ELSE ElU]

DetailNames == <<"Module not found: does-not-exist", "Syntax error", "Type error", "Lint error">>
Errors(n) == [i \in 1..n |-> <<DetailNames[i]>>]

TemplateBodies ==
  { <<>>,
    <<ElP>>,
    <<MARK, ElP>>,
    <<WO, MARK, WC>>,
    <<WO, MARK, ElQ, WC>>,
    <<ElP, CO, MARK, CC>>,
    <<ElP, CO, NL, DT, NL, CC>>,
    <<ElP, MARK, MARK>> }

Templates == { d \o b : d \in {<<>>, <<DT>>, <<DTLower>>}, b \in TemplateBodies }

JsSource == <<"export default ...">>

\* this.request, as the characters the request test looks at
HtmlRequest == <<"index", ".", "html">>
EjsRequest == <<"index", ".", "e", "js">>
JsRequest == <<"app", ".", "js">>
TsxRequest == <<"App", ".", "TS", "X">>

Sources ==
  { [request |-> HtmlRequest, content |-> t] : t \in Templates }
  \cup { [request |-> JsRequest, content |-> JsSource],
         [request |-> TsxRequest, content |-> JsSource],
         [request |-> EjsRequest, content |-> <<WO, MARK, WC>>] }

Mutations == {"none", "append", "removeLast"}

Literals == {Undef, Null, Num(5)} \cup { Str(Markup(n)) : n \in 0..MaxMarkup }

Promises ==
  { Promise("fulfil", Undef), Promise("fulfil", Str(Markup(1))),
    Promise("reject", Err(<<"rejected">>)), Promise("never", Undef) }
  \cup { Promise("fulfil", v) : v \in { Num(5), Obj(<<<<"default", Str(Markup(1))>>>>),
                                        Fn(Str(Markup(1)), "none", FALSE) } }

\* customElements.whenDefined(), navigator.serviceWorker.register() and what
\* their then/catch/finally return
ShimAwaitables == {BrokenPromise}

Functions ==
  { Fn(r, m, FALSE) : r \in {Undef, Str(Markup(MaxMarkup))} \cup Promises \cup ShimAwaitables,
                      m \in {"none", "append"} }
  \cup { Fn(Undef, "none", TRUE), Fn(Obj(<<>>), "none", FALSE), Fn(Num(5), "none", FALSE),
          Fn(Obj(<<<<"default", Str(Markup(1))>>>>), "none", FALSE),
          Fn(Fn(Str(Markup(1)), "none", FALSE), "none", FALSE) }

\* what each export name is bound to in the enumerated entry modules
ExportNames == {"default", "__esModule", "other", "prerender"}
ExportValues(k) ==
  CASE k = "default" -> {Str(Markup(1)), Str(<<>>), Promise("fulfil", Str(Markup(1)))}
    [] k = "__esModule" -> {Bool(TRUE)}
    [] k = "other" -> {Str(Markup(MaxMarkup))}
    [] OTHER -> {Fn(Str(Markup(1)), "none", FALSE),
                 Fn(Promise("fulfil", Fn(Str(Markup(1)), "none", FALSE)), "none", FALSE)}

RECURSIVE PropSeqs(_, _)
\* property lists of at most n properties with distinct names taken from ks
PropSeqs(n, ks) ==
  IF n = 0 THEN {<<>>}
  ELSE {<<>>} \cup UNION { { <<<<k, v>>>> \o rest : v \in ExportValues(k), rest \in PropSeqs(n - 1, ks \ {k}) } : k \in ks }

Objects == { Obj(ps) : ps \in PropSeqs(MaxProps, ExportNames) }

RawValues == Literals \cup Promises \cup ShimAwaitables \cup Functions \cup Objects

MainAsset == "ssr-bundle.js"
AssetNames == {MainAsset, "chunk.js", "vendor.js"}
\* the require calls the bundle makes, in order; a module id is <<prefix, rest>>
Prefixes == {"", "./", "/", "../"}
ModuleIds == { <<p, n>> : p \in Prefixes, n \in {"chunk.js", "missing"} }
Requires ==
  {<<>>} \cup { <<a>> : a \in ModuleIds }
  \cup { <<<<"./", "chunk.js">>, b>> : b \in ModuleIds }
  \cup { <<<<"./", "chunk.js">>, <<"/", "vendor.js">>, <<"./", "chunk.js">>>> }

Bundles ==
  { [fault |-> FALSE, requires |-> <<>>, mut |-> m, raw |-> r] : m \in Mutations, r \in RawValues }
  \cup { [fault |-> FALSE, requires |-> rq, mut |-> "none", raw |-> Str(Markup(1))] : rq \in Requires }
  \cup { [fault |-> TRUE, requires |-> <<>>, mut |-> "none", raw |-> Undef] }

GoodBuild == [err |-> FALSE, errors |-> <<>>, hasMain |-> TRUE]
Builds ==
  { [err |-> FALSE, errors |-> Errors(n), hasMain |-> TRUE] : n \in 0..MaxErrors }
  \cup { [err |-> TRUE, errors |-> <<>>, hasMain |-> FALSE],
         [err |-> FALSE, errors |-> <<>>, hasMain |-> FALSE] }

OutputModes ==
  { [string |-> FALSE, as |-> "none"], [string |-> TRUE, as |-> "none"], [string |-> FALSE, as |-> "string"] }

Options ==
  { [string |-> m.string, as |-> m.as, disabled |-> d, params |-> p] :
      m \in OutputModes, d \in BOOLEAN, p \in {Undef, Obj(<<<<"name", Str(<<"X">>)>>>>)} }

(***************************************************************************)
(* State                                                                   *)
(***************************************************************************)
VARIABLES
  request,            \* this.request
  content,            \* the loader's input
  options,            \* loaderUtils.getOptions(this)
  build,              \* what the nested build will report
  bundle,             \* what the compiled entry does when evaluated
  pc,                 \* position of the render
  inject,             \* the inject flag
  templateContent,    \* options.templateContent
  dom,                \* the sandbox document
  domBuilt,           \* dom and window are defined
  injectParent,       \* recorded anchor: parent node
  injectNextSibling,  \* recorded anchor: next sibling
  result,             \* the value being resolved
  awaited,            \* the awaitable the render is suspended on
  promise,            \* the promise prerender() returned
  returned,           \* what the loader function returned synchronously
  calls,              \* invocations of the loader's completion callback
  effects,            \* how often each collaborator was used
  hostCache,          \* the host build's cache store
  renders             \* the nested compilations of the renders of one host build

vars == <<request, content, options, build, bundle, pc, inject, templateContent, dom, domBuilt,
          injectParent, injectNextSibling, result, awaited, promise, returned, calls, effects,
          hostCache, renders>>

inputs == <<request, content, options, build, bundle>>

cacheVars == <<hostCache, renders>>

NoDom == [doctype |-> FALSE, body |-> <<>>, detached |-> <<>>]
Pending == [state |-> "pending", value |-> Undef]
Fulfilled(v) == [state |-> "fulfilled", value |-> v]
Rejected(e) == [state |-> "rejected", value |-> e]
NoEffects == [childCompilers |-> 0, hostDefines |-> 0, children |-> 0, sandboxes |-> 0,
              evals |-> 0, moduleEvals |-> 0, invocations |-> 0, required |-> <<>>, steps |-> <<>>]

\* a host build without a cache store
NoCache == [enabled |-> FALSE, entries |-> <<>>, parts |-> <<>>]

DefaultDocument == <<DT, DocOpen, DocClose>>
CompileError == Err(<<"compiler.compile failed">>)
EvalError == Err(<<"ReferenceError: x is not defined">>)
CallError == Err(<<"TypeError: thrown by the exported function">>)
NotFoundError == Err(<<"NotFoundError: The node before which the new node is to be inserted is not a child of this node.">>)
SerializeTypeError == Err(<<"TypeError: Cannot read property 'serialize' of undefined">>)

Init ==
  /\ \E src \in Sources :
       /\ request = src.request
       /\ content = src.content
  /\ options \in Options
  /\ build \in Builds
  /\ bundle \in Bundles
  \* the nested build and the entry only matter to a render that runs them
  /\ options.disabled => (build = GoodBuild /\ bundle.raw = Undef /\ bundle.mut = "none" /\ ~bundle.fault /\ bundle.requires = <<>>)
  /\ build # GoodBuild => (bundle.raw = Undef /\ bundle.mut = "none" /\ ~bundle.fault /\ bundle.requires = <<>>)
  /\ pc = "start"
  /\ inject = FALSE
  /\ templateContent = Undef
  /\ dom = NoDom
  /\ domBuilt = FALSE
  /\ injectParent = NullRef
  /\ injectNextSibling = NullRef
  /\ result = Undef
  /\ awaited = Undef
  /\ promise = Pending
  /\ returned = Undef
  /\ calls = <<>>
  /\ effects = NoEffects
  /\ hostCache = NoCache
  /\ renders = <<>>

(***************************************************************************)
(* The loader function                                                     *)
(***************************************************************************)
ToLower(c) ==
  CASE c = "JS" -> "js" [] c = "TS" -> "ts" [] c = "X" -> "x" [] OTHER -> c

\* this.request.match(/.(js|ts)x?$/i): the dot is unescaped and stands for any character
RequestIsScript(r) ==
  LET n == Len(r)
  IN \/ n >= 2 /\ ToLower(r[n]) \in {"js", "ts"}
     \/ n >= 3 /\ ToLower(r[n]) = "x" /\ ToLower(r[n - 1]) \in {"js", "ts"}

\* as Disabled, but the option is never honoured
DisabledNever(opts) == FALSE

\* options.disabled === true
Disabled(opts) == opts.disabled = TRUE

PrerenderLoader ==
  /\ pc = "start"
  /\ IF Disabled(options)
     THEN /\ returned' = Str(outputFilter(options, content))
          /\ pc' = "returned"
          /\ UNCHANGED <<inject, templateContent, effects>>
     ELSE /\ inject' = (~RequestIsScript(request) /\ PRERENDER_REG_match(content))
          /\ templateContent' = IF RequestIsScript(request) THEN Undef ELSE Str(content)
          \* prerender() up to its first await: the child compiler is created
          \* and DefinePlugin is applied to it and to the host compiler
          /\ effects' = [effects EXCEPT !.childCompilers = @ + 1, !.hostDefines = @ + 1]
          /\ pc' = "compiling"
          /\ UNCHANGED returned
  /\ UNCHANGED <<inputs, cacheVars, dom, domBuilt, injectParent, injectNextSibling, result, awaited, promise, calls>>

(***************************************************************************)
(* Nested build                                                            *)
(***************************************************************************)
RECURSIVE Join(_, _)
\* array.join(sep) of strings
Join(ss, sep) ==
  IF ss = <<>> THEN <<>>
  ELSE IF Len(ss) = 1 THEN ss[1]
  ELSE ss[1] \o <<sep>> \o Join(Tail(ss), sep)

\* as ChildCompilationMessage, but only the first diagnostic is reported
ChildCompilationMessageFirst(errors) == <<"Child compilation failed:", NL>> \o errors[1]

\* 'Child compilation failed:\n' + compilation.errors.map(error => error.details).join('\n')
ChildCompilationMessage(errors) == <<"Child compilation failed:", NL>> \o Join(errors, NL)

RunChildCompiler ==
  /\ pc = "compiling"
  /\ effects' = [effects EXCEPT !.children = @ + 1]
  /\ IF build.err
     THEN /\ promise' = Rejected(CompileError)
          /\ pc' = "rejected"
     ELSE IF Len(build.errors) > 0
     THEN /\ promise' = Rejected(Err(ChildCompilationMessage(build.errors)))
          /\ pc' = "rejected"
     ELSE /\ pc' = "compiled"
          /\ UNCHANGED promise
  /\ UNCHANGED <<inputs, cacheVars, inject, templateContent, dom, domBuilt, injectParent, injectNextSibling,
                 result, awaited, returned, calls>>

(***************************************************************************)
(* Sandbox                                                                 *)
(***************************************************************************)
\* window.document.getElementById('PRERENDER_INJECT') with its parentNode and
\* nextSibling, and the document once the placeholder is removed
LocatePlaceholder(d) ==
  LET top == FindTag(d.body, PH, 1)
      par == FindParentOfTag(d.body, PH, 1)
  IN IF par # 0 /\ (top = 0 \/ par < top)
     THEN LET kids == d.body[par].kids
              k == FindTag(kids, PH, 1)
          IN [found |-> TRUE,
              parent |-> d.body[par].id,
              next |-> IF k < Len(kids) THEN kids[k + 1].id ELSE NullRef,
              dom |-> [d EXCEPT !.body[par].kids = RemoveAt(kids, k)]]
     ELSE IF top # 0
     THEN [found |-> TRUE,
           parent |-> BodyRef,
           next |-> IF top < Len(d.body) THEN d.body[top + 1].id ELSE NullRef,
           dom |-> [d EXCEPT !.body = RemoveAt(d.body, top)]]
     ELSE [found |-> FALSE, parent |-> NullRef, next |-> NullRef, dom |-> d]

BuildSandbox ==
  /\ pc = "compiled"
  /\ IF build.hasMain
     THEN LET tpl == IF Truthy(templateContent) THEN templateContent.val ELSE DefaultDocument
              at == LocatePlaceholder(JSDOM(PRERENDER_REG_replace(tpl, <<PH>>)))
          IN /\ dom' = at.dom
             /\ domBuilt' = TRUE
             /\ injectParent' = at.parent
             /\ injectNextSibling' = at.next
             /\ effects' = [effects EXCEPT !.sandboxes = @ + 1]
             /\ pc' = "sandbox"
     ELSE \* no main bundle among the assets: nothing is executed
          /\ pc' = "executed"
          /\ UNCHANGED <<dom, domBuilt, injectParent, injectNextSibling, effects>>
  /\ UNCHANGED <<inputs, cacheVars, inject, templateContent, result, awaited, promise, returned, calls>>

\* what the entry's code does to the document
ApplyMutation(d, m) ==
  CASE m = "append" -> [d EXCEPT !.body = Append(@, ElemNode(<<"entry", Len(d.body) + Len(d.detached) + 1>>, ElDom, <<>>))]
    [] m = "removeLast" /\ d.body # <<>> ->
         [d EXCEPT !.body = SubSeq(@, 1, Len(@) - 1), !.detached = Append(@, d.body[Len(d.body)])]
    [] OTHER -> d

\* compilation.assets
Assets(b) == IF b.hasMain THEN { <<"", n>> : n \in AssetNames } ELSE {}

\* moduleId.replace(/^\.?\//g, ''): one leading "./" or "/" is stripped
NormalizeIdDotOnly(id) == IF id[1] = "./" THEN <<"", id[2]>> ELSE id

NormalizeId(id) == IF id[1] \in {"./", "/"} THEN <<"", id[2]>> ELSE id

ModuleNotFound(id) == Err(<<"Error:  Module not found. attempted require(\"", id[1], id[2], "\")">>)

RECURSIVE FirstMissing(_, _, _)
\* index of the first require whose asset is absent, 0 when all are found
FirstMissing(reqs, assets, i) ==
  IF i > Len(reqs) THEN 0
  ELSE IF NormalizeId(reqs[i]) \notin assets THEN i
  ELSE FirstMissing(reqs, assets, i + 1)

\* const mod = { exports: {} } and the evaluation of the asset's source, once
\* for every call that found its asset: the k-th evaluation makes exports
\* object k
RequiredFresh(reqs, n) == [i \in 1..n |-> [id |-> reqs[i], exports |-> i]]

(***************************************************************************)
(* Executor                                                                *)
(***************************************************************************)
Execute ==
  /\ pc = "sandbox"
  /\ LET missing == FirstMissing(bundle.requires, Assets(build), 1)
         found == IF missing # 0 THEN missing - 1 ELSE Len(bundle.requires)
         ran == [effects EXCEPT !.evals = @ + 1, !.moduleEvals = @ + found,
                                !.required = @ \o RequiredFresh(bundle.requires, found)]
     IN IF missing # 0
        THEN /\ effects' = ran
             /\ promise' = Rejected(ModuleNotFound(bundle.requires[missing]))
             /\ pc' = "rejected"
             /\ UNCHANGED <<result, dom>>
        ELSE IF bundle.fault
        THEN /\ effects' = ran
             /\ promise' = Rejected(EvalError)
             /\ pc' = "rejected"
             /\ UNCHANGED <<result, dom>>
        ELSE /\ effects' = ran
             /\ result' = bundle.raw
             /\ dom' = ApplyMutation(dom, bundle.mut)
             /\ pc' = "executed"
             /\ UNCHANGED promise
  /\ UNCHANGED <<inputs, cacheVars, inject, templateContent, domBuilt, injectParent, injectNextSibling,
                 awaited, returned, calls>>

(***************************************************************************)
(* Export resolver                                                         *)
(***************************************************************************)
Unwrap ==
  /\ pc = "executed"
  /\ IF Truthy(result) /\ TypeofObject(result)
     THEN /\ result' = getBestModuleExport(result)
          /\ effects' = [effects EXCEPT !.steps = Append(@, "unwrap")]
     ELSE UNCHANGED <<result, effects>>
  /\ pc' = "unwrapped"
  /\ UNCHANGED <<inputs, cacheVars, inject, templateContent, dom, domBuilt, injectParent, injectNextSibling,
                 awaited, promise, returned, calls>>

\* options.params || null
CallArgument(opts) == IF Truthy(opts.params) THEN opts.params ELSE Null

Invoke ==
  /\ pc = "unwrapped"
  /\ IF result.tag = "function"
     THEN LET f == result.val[1]
          IN /\ effects' = [effects EXCEPT !.invocations = @ + 1, !.steps = Append(@, "invoke")]
             /\ IF f.throws
                THEN /\ promise' = Rejected(CallError)
                     /\ pc' = "rejected"
                     /\ UNCHANGED <<result, dom>>
                ELSE /\ result' = f.ret
                     /\ dom' = ApplyMutation(dom, f.mut)
                     /\ pc' = "invoked"
                     /\ UNCHANGED promise
     ELSE /\ pc' = "invoked"
          /\ UNCHANGED <<result, dom, promise, effects>>
  /\ UNCHANGED <<inputs, cacheVars, inject, templateContent, domBuilt, injectParent, injectNextSibling,
                 awaited, returned, calls>>

Await ==
  /\ pc = "invoked"
  /\ IF Truthy(result) /\ HasThen(result)
     THEN /\ awaited' = result
          /\ effects' = [effects EXCEPT !.steps = Append(@, "await")]
          /\ pc' = "awaiting"
     ELSE /\ pc' = "resolved"
          /\ UNCHANGED <<awaited, effects>>
  /\ UNCHANGED <<inputs, cacheVars, inject, templateContent, dom, domBuilt, injectParent, injectNextSibling,
                 result, promise, returned, calls>>

\* as FulfilledValue, but the settled value is dropped
FulfilledValueDropped(p) == Undef

\* the value a fulfilled awaitable hands to the continuation
FulfilledValue(p) == p.val[1].v

\* the error a rejected awaitable raises at the await
RejectionReason(p) == p.val[1].v

\* as Settles, but a BrokenPromise calls the continuation as a fulfilled
\* awaitable does
SettlesInert(p, how) == p.val[1].how = how \/ (how = "fulfil" /\ p.val[1].how = "inert")

\* the awaitable calls the continuation registered for this outcome; a
\* BrokenPromise ("inert") calls none
Settles(p, how) == p.val[1].how = how

\* as AfterAwait, but the resolver starts over on the settled value
AfterAwaitAgain == "executed"

\* where the render continues with the settled value: the injector
AfterAwait == "resolved"

AwaitFulfilled ==
  /\ pc = "awaiting"
  /\ Settles(awaited, "fulfil")
  /\ result' = FulfilledValue(awaited)
  /\ pc' = AfterAwait
  /\ UNCHANGED <<inputs, cacheVars, inject, templateContent, dom, domBuilt, injectParent, injectNextSibling,
                 awaited, promise, returned, calls, effects>>

AwaitRejected ==
  /\ pc = "awaiting"
  /\ Settles(awaited, "reject")
  /\ promise' = Rejected(RejectionReason(awaited))
  /\ pc' = "rejected"
  /\ UNCHANGED <<inputs, cacheVars, inject, templateContent, dom, domBuilt, injectParent, injectNextSibling,
                 result, awaited, returned, calls, effects>>

(***************************************************************************)
(* Injector / serializer                                                   *)
(***************************************************************************)
\* as InjectPath, but the inject flag is tested first
InjectPathFlagFirst(res, tc, inj) ==
  IF inj THEN "marker"
  ELSE IF res # Undef /\ Truthy(tc) THEN "explicit"
  ELSE "document"

\* which branch the tail of prerender() takes
InjectPath(res, tc, inj) ==
  IF res # Undef /\ Truthy(tc) THEN "explicit"
  ELSE IF inj THEN "marker"
  ELSE "document"

RECURSIVE InsertAll(_, _, _, _)
\* while ((child = content.firstChild)) parent.insertBefore(child, ref)
InsertAll(d, parent, nodes, ref) ==
  IF nodes = <<>> THEN d
  ELSE InsertAll(insertBefore(d, parent, Head(nodes), ref), parent, Tail(nodes), ref)

\* if (!/^<!DOCTYPE /mi.test(serialized)) serialized = `<!DOCTYPE html>${serialized}`
AddDoctype(serialized) ==
  IF ~DoctypeTest(serialized) THEN <<DT>> \o serialized ELSE serialized

\* template.innerHTML = result || ''
ResultMarkup(res) == IF Truthy(res) THEN ToStr(res) ELSE <<>>

\* injectParent || window.document.body
AnchorParent(p) == IF p # NullRef THEN p ELSE BodyRef

Inject ==
  /\ pc = "resolved"
  /\ LET path == InjectPath(result, templateContent, inject)
         nodes == ParseFragment(ResultMarkup(result))
         parent == AnchorParent(injectParent)
     IN CASE path = "explicit" /\ ~domBuilt ->
               /\ promise' = Rejected(SerializeTypeError)
               /\ pc' = "rejected"
               /\ UNCHANGED dom
          [] path = "explicit" /\ domBuilt /\ nodes # <<>> /\ ~CanInsertBefore(dom, parent, injectNextSibling) ->
               /\ promise' = Rejected(NotFoundError)
               /\ pc' = "rejected"
               /\ UNCHANGED dom
          [] path = "explicit" /\ domBuilt /\ (nodes = <<>> \/ CanInsertBefore(dom, parent, injectNextSibling)) ->
               /\ dom' = InsertAll(dom, parent, nodes, injectNextSibling)
               /\ promise' = Fulfilled(Str(AddDoctype(serialize(dom'))))
               /\ pc' = "fulfilled"
          [] path = "marker" ->
               /\ promise' = Fulfilled(Str(PRERENDER_REG_replace(templateContent.val, ResultMarkup(result))))
               /\ pc' = "fulfilled"
               /\ UNCHANGED dom
          [] path = "document" /\ ~domBuilt ->
               /\ promise' = Rejected(SerializeTypeError)
               /\ pc' = "rejected"
               /\ UNCHANGED dom
          [] path = "document" /\ domBuilt ->
               /\ promise' = Fulfilled(Str(AddDoctype(serialize(dom))))
               /\ pc' = "fulfilled"
               /\ UNCHANGED dom
  /\ UNCHANGED <<inputs, cacheVars, inject, templateContent, domBuilt, injectParent, injectNextSibling,
                 result, awaited, returned, calls, effects>>

(***************************************************************************)
(* Completion                                                              *)
(***************************************************************************)
\* .then(output => { callback(null, outputFilter(output)) })
LoaderThen ==
  /\ pc = "fulfilled"
  /\ calls' = Append(calls, [err |-> Null, out |-> Str(outputFilter(options, promise.value.val))])
  /\ pc' = "done"
  /\ UNCHANGED <<inputs, cacheVars, inject, templateContent, dom, domBuilt, injectParent, injectNextSibling,
                 result, awaited, promise, returned, effects>>

\* as LoaderCatch, but the error is swallowed and an empty output delivered
LoaderCatchSwallows ==
  /\ pc = "rejected"
  /\ calls' = Append(calls, [err |-> Null, out |-> Str(<<>>)])
  /\ pc' = "done"
  /\ UNCHANGED <<inputs, cacheVars, inject, templateContent, dom, domBuilt, injectParent, injectNextSibling,
                 result, awaited, promise, returned, effects>>

\* .catch(err => { callback(err) })
LoaderCatch ==
  /\ pc = "rejected"
  /\ calls' = Append(calls, [err |-> promise.value, out |-> Undef])
  /\ pc' = "done"
  /\ UNCHANGED <<inputs, cacheVars, inject, templateContent, dom, domBuilt, injectParent, injectNextSibling,
                 result, awaited, promise, returned, effects>>

Next ==
  \/ PrerenderLoader
  \/ RunChildCompiler
  \/ BuildSandbox
  \/ Execute
  \/ Unwrap
  \/ Invoke
  \/ Await
  \/ AwaitFulfilled
  \/ AwaitRejected
  \/ Inject
  \/ LoaderThen
  \/ LoaderCatch

Spec == Init /\ [][Next]_vars

(***************************************************************************)
(* Renders whose awaitables settle or are inert, under fair scheduling     *)
(***************************************************************************)
\* awaitables that settle, and the shims' awaitables
LiveAwaitables == (Promises \ {Promise("never", Undef)}) \cup ShimAwaitables

LiveRaws ==
  {Undef, Str(Markup(1)), Fn(Undef, "none", TRUE)}
  \cup LiveAwaitables
  \cup { Fn(a, "none", FALSE) : a \in LiveAwaitables }

LiveInit ==
  /\ Init
  /\ content \in {<<WO, MARK, WC>>, JsSource}
  /\ options.as = "none" /\ ~options.string /\ options.params = Undef
  /\ bundle.mut = "none"
  /\ bundle.raw \in LiveRaws

\* every step is synchronous code or a continuation the event loop runs once
\* its awaitable has settled, and the nested build finishes
LiveSpec == LiveInit /\ [][Next]_vars /\ WF_vars(Next)

(***************************************************************************)
(* Properties                                                              *)
(***************************************************************************)
\* a template was supplied: the loader was applied to a request that is not a script
TemplateSupplied == ~RequestIsScript(request)

\* the nodes sit, in order and next to each other, among the children of
\* parent, directly before ref (at the end when ref is null), and the other
\* children are the ones parent had before
InsertedBefore(before, after, parent, nodes, ref) ==
  LET old == ChildrenOf(before, parent)
      new == ChildrenOf(after, parent)
      n == Len(nodes)
  IN \E k \in 1..(Len(old) + 1) :
       /\ new = SubSeq(old, 1, k - 1) \o nodes \o SubSeq(old, k, Len(old))
       /\ IF ref = NullRef THEN k = Len(old) + 1 ELSE k <= Len(old) /\ old[k].id = ref

\* the serialized document, a doctype put in front when the doctype test finds none
SerializedOutput(d) ==
  IF DoctypeTest(serialize(d)) THEN serialize(d) ELSE <<DT>> \o serialize(d)

C2_Original ==
  [][ (pc = "resolved" /\ effects.evals = 1 /\ result = Undef) =>
        /\ pc' = "fulfilled"
        /\ dom' = dom
        /\ promise'.value.val \in {serialize(dom), <<DT>> \o serialize(dom)}
        /\ promise'.value.val[1] = DT ]_vars

C4_Original ==
  [][ (pc = "resolved" /\ request \in {JsRequest, TsxRequest} /\ result.tag = "string") =>
        /\ pc' = "fulfilled"
        /\ \A i \in 1..Len(result.val) :
             \E k \in 1..Len(dom'.body) : dom'.body[k].tag = result.val[i]
        /\ promise'.value.val = SerializedOutput(dom') ]_vars

\* C5: once the value left by unwrap and invoke exposes then, the render is
\* suspended on it with nothing delivered; when it fulfils, the fulfilled
\* value is the resolved value the injector works on; when it rejects, the
\* render fails with the rejection reason as its error and delivers no output.
C5_Theorem ==
  /\ pc \in {"resolved", "fulfilled"} => ~(Truthy(result) /\ HasThen(result))
  /\ awaited # Undef =>
       /\ HasThen(awaited)
       /\ pc = "awaiting" => (calls = <<>> /\ promise = Pending /\ returned = Undef /\ result = awaited)
       /\ awaited.val[1].how = "never" => pc = "awaiting"
       /\ (awaited.val[1].how = "fulfil" /\ pc # "awaiting") =>
            /\ result = awaited.val[1].v
            /\ (pc = "fulfilled" /\ Truthy(templateContent) /\ result.tag = "string") =>
                 \A i \in 1..Len(result.val) :
                   \E k \in 1..Len(ChildrenOf(dom, AnchorParent(injectParent))) :
                     ChildrenOf(dom, AnchorParent(injectParent))[k].tag = result.val[i]
       /\ (awaited.val[1].how = "reject" /\ pc # "awaiting") =>
            /\ pc \in {"rejected", "done"}
            /\ promise = Rejected(awaited.val[1].v)
            /\ pc = "done" => calls = <<[err |-> awaited.val[1].v, out |-> Undef]>>

\* C5 witness: a render that was suspended on a promise delivered the
\* promise's fulfilled markup inside the serialized template
C5_Witness ==
  /\ pc = "done"
  /\ awaited = Promise("fulfil", Str(Markup(1)))
  /\ content = <<WO, MARK, WC>>
  /\ calls[1].err = Null
  /\ \E i \in 1..Len(calls[1].out.val) : calls[1].out.val[i] = ElB

HasKey(props, key) == \E i \in 1..Len(props) : props[i][1] = key

\* C6 as stated: unwrapping an exported object returns the value bound to
\* default whenever the object has that key, otherwise the value of the first
\* property whose key is not __esModule, and undefined when none qualifies.
C6_Original ==
  (pc = "unwrapped" /\ bundle.raw.tag = "object") =>
    result = IF HasKey(bundle.raw.val, "default")
             THEN GetProp(bundle.raw.val, "default")
             ELSE FirstNotEsModule(bundle.raw.val)

\* C7: with the disabled option true the loader returns its input unchanged,
\* wrapped as `export default <JSON string>` only in string mode, and nothing
\* else happens: no child compiler, no change to the host compiler, no
\* sandbox, no evaluation, no callback.
C7_Theorem ==
  options.disabled =>
    /\ pc \in {"start", "returned"}
    /\ effects = NoEffects
    /\ ~domBuilt /\ dom = NoDom
    /\ calls = <<>> /\ promise = Pending
    /\ pc = "start" => returned = Undef
    /\ pc = "returned" =>
         returned = Str(IF options.string \/ options.as = "string"
                        THEN <<"export default ", "\"">>
                             \o [i \in 1..Len(content) |-> IF content[i] = NL THEN "\\n" ELSE content[i]]
                             \o <<"\"">>
                        ELSE content)

\* C7 witness: a disabled loader in string mode returned the wrapped template
C7_Witness ==
  /\ pc = "returned"
  /\ options.disabled /\ options.string
  /\ content = <<ElP, CO, NL, DT, NL, CC>>
  /\ returned.val[1] = "export default "
  /\ returned.val[5] = "\\n"

IsDetailToken(t) == t \notin {"Child compilation failed:", NL}

RECURSIVE Concat(_)
Concat(ss) == IF ss = <<>> THEN <<>> ELSE Head(ss) \o Concat(Tail(ss))

\* C8: when the nested build reports error diagnostics the render fails with
\* an error whose message is, after its heading, all the diagnostics' detail
\* strings in order, one per line; no sandbox is built, nothing is evaluated,
\* and the loader's callback receives that error and no output.
C8_Theorem ==
  (~build.err /\ build.errors # <<>> /\ pc \notin {"start", "compiling"}) =>
    /\ pc \in {"rejected", "done"}
    /\ promise.state = "rejected"
    /\ promise.value.tag = "error"
    /\ promise.value.val[1] = "Child compilation failed:"
    /\ SelectSeq(promise.value.val, IsDetailToken) = Concat(build.errors)
    /\ Len(promise.value.val) = 2 * Len(build.errors) + 1
    /\ effects.sandboxes = 0 /\ effects.evals = 0 /\ effects.invocations = 0
    /\ ~domBuilt /\ result = Undef
    /\ pc = "done" => calls = <<[err |-> promise.value, out |-> Undef]>>

\* C8 witness: a nested build with the most diagnostics failed the render
C8_Witness ==
  /\ pc = "done"
  /\ Len(build.errors) = MaxErrors
  /\ calls[1].err.tag = "error"
  /\ calls[1].err.val[Len(calls[1].err.val)] = DetailNames[MaxErrors]

C10_Original ==
  (pc \in {"fulfilled", "done"} /\ promise.state = "fulfilled" /\ ~(inject /\ result = Undef)) =>
    /\ promise.value.val[1] \in {DT, DTLower}
    /\ promise.value.val[2] \notin {DT, DTLower}

(***************************************************************************)
(* The nested compilations' cache, for several renders of one host build   *)
(***************************************************************************)
MaxRenders == 3

\* this.request of the renders
RenderRequests == {HtmlRequest, EjsRequest}

\* the names under which a compilation caches its modules; a nested build
\* and the host build can both hold a module of the same name
ModuleKeys == {<<"m", "main.js">>, <<"m", "shared.js">>}

\* what the host build and a nested build of request q store for a module
HostEntry == [by |-> <<"host">>]
NestedEntry(q) == [by |-> q]

HostCache == [enabled |-> TRUE, entries |-> [k \in {<<"m", "main.js">>} |-> HostEntry], parts |-> <<>>]

\* o[k] = v
Put(o, k, v) == [x \in DOMAIN o \cup {k} |-> IF x = k THEN v ELSE o[x]]

\* compilation.cache: absent, the host's store (path <<>>) or the object held
\* under a key of it (path <<key>>)
NoRef == [has |-> FALSE, path |-> <<>>]
RootRef == [has |-> TRUE, path |-> <<>>]

\* as SubCacheKey, but the same key for every request
SubCacheKeyShared(req) == <<"subcache ">>

\* const subCache = 'subcache ' + request
SubCacheKey(req) == <<"subcache ">> \o req

\* addChildCache: the store and compilation.cache after the hook
addChildCache(store, ref, req) ==
  IF ref.has
  THEN [store |-> IF SubCacheKey(req) \in DOMAIN store.parts
                  THEN store
                  ELSE [store EXCEPT !.parts = Put(@, SubCacheKey(req), <<>>)],
        ref |-> [has |-> TRUE, path |-> Append(ref.path, SubCacheKey(req))]]
  ELSE [store |-> store, ref |-> ref]

\* the object compilation.cache refers to
CacheObject(store, ref) == IF ref.path = <<>> THEN store.entries ELSE store.parts[ref.path[1]]

\* compilation.cache[k] = v
CacheStore(store, ref, k, v) ==
  IF ref.path = <<>>
  THEN [store EXCEPT !.entries = Put(@, k, v)]
  ELSE [store EXCEPT !.parts[ref.path[1]] = Put(@, k, v)]

IdleRender(q) == [request |-> q, pc |-> "idle", cache |-> NoRef, wrote |-> {}, seen |-> {}]

CacheInit ==
  /\ request = HtmlRequest
  /\ content = <<>>
  /\ options = [string |-> FALSE, as |-> "none", disabled |-> FALSE, params |-> Undef]
  /\ build = GoodBuild
  /\ bundle = [fault |-> FALSE, requires |-> <<>>, mut |-> "none", raw |-> Undef]
  /\ pc = "start"
  /\ inject = FALSE
  /\ templateContent = Undef
  /\ dom = NoDom
  /\ domBuilt = FALSE
  /\ injectParent = NullRef
  /\ injectNextSibling = NullRef
  /\ result = Undef
  /\ awaited = Undef
  /\ promise = Pending
  /\ returned = Undef
  /\ calls = <<>>
  /\ effects = NoEffects
  /\ hostCache \in {NoCache, HostCache}
  /\ renders \in [1..MaxRenders -> { IdleRender(q) : q \in RenderRequests }]

\* the nested compiler creates its compilation: the host's cache plugin has
\* set compilation.cache when the 'compilation' hook calls addChildCache
NewCompilation(r) ==
  /\ renders[r].pc = "idle"
  /\ LET hooked == addChildCache(hostCache, IF hostCache.enabled THEN RootRef ELSE NoRef, renders[r].request)
     IN /\ hostCache' = hooked.store
        /\ renders' = [renders EXCEPT ![r].pc = "building", ![r].cache = hooked.ref]
  /\ UNCHANGED <<inputs, pc, inject, templateContent, dom, domBuilt, injectParent, injectNextSibling,
                 result, awaited, promise, returned, calls, effects>>

\* the nested build stores a module it built
CacheWrite(r, k) ==
  /\ renders[r].pc = "building"
  /\ renders[r].cache.has
  /\ hostCache' = CacheStore(hostCache, renders[r].cache, k, NestedEntry(renders[r].request))
  /\ renders' = [renders EXCEPT ![r].wrote = @ \cup {k}]
  /\ UNCHANGED <<inputs, pc, inject, templateContent, dom, domBuilt, injectParent, injectNextSibling,
                 result, awaited, promise, returned, calls, effects>>

\* the nested build finds a module in its cache
CacheRead(r, k) ==
  /\ renders[r].pc = "building"
  /\ renders[r].cache.has
  /\ k \in DOMAIN CacheObject(hostCache, renders[r].cache)
  /\ renders' = [renders EXCEPT ![r].seen = @ \cup {CacheObject(hostCache, renders[r].cache)[k]}]
  /\ UNCHANGED <<inputs, hostCache, pc, inject, templateContent, dom, domBuilt, injectParent, injectNextSibling,
                 result, awaited, promise, returned, calls, effects>>

\* the nested build is done
Seal(r) ==
  /\ renders[r].pc = "building"
  /\ renders' = [renders EXCEPT ![r].pc = "sealed"]
  /\ UNCHANGED <<inputs, hostCache, pc, inject, templateContent, dom, domBuilt, injectParent, injectNextSibling,
                 result, awaited, promise, returned, calls, effects>>

\* the host build stores a module of its own
HostWrite(k) ==
  /\ hostCache.enabled
  /\ hostCache' = [hostCache EXCEPT !.entries = Put(@, k, HostEntry)]
  /\ UNCHANGED <<inputs, renders, pc, inject, templateContent, dom, domBuilt, injectParent, injectNextSibling,
                 result, awaited, promise, returned, calls, effects>>

CacheNext ==
  \/ \E r \in 1..MaxRenders : NewCompilation(r)
  \/ \E r \in 1..MaxRenders, k \in ModuleKeys : CacheWrite(r, k)
  \/ \E r \in 1..MaxRenders, k \in ModuleKeys : CacheRead(r, k)
  \/ \E r \in 1..MaxRenders : Seal(r)
  \/ \E k \in ModuleKeys : HostWrite(k)

CacheSpec == CacheInit /\ [][CacheNext]_vars

(***************************************************************************)
(* Module loader                                                           *)
(***************************************************************************)
\* C11: within one sandbox, two require calls with the same id return the
\* identical exports reference and the module's body is evaluated at most
\* once per id.  This is the claim as stated; window.require keeps no table
\* of loaded modules, so the bundle that requires "./chunk.js" twice gets two
\* exports objects from two evaluations.
C11_Original ==
  /\ \A i, j \in DOMAIN effects.required :
       effects.required[i].id = effects.required[j].id =>
         effects.required[i].exports = effects.required[j].exports
  /\ effects.moduleEvals <= Cardinality({ effects.required[i].id : i \in DOMAIN effects.required })

\* the first require call whose id names no asset, 0 when every call finds one
C12_FirstAbsent ==
  LET absent == { i \in DOMAIN bundle.requires :
                    bundle.requires[i][1] = "../" \/ bundle.requires[i][2] \notin AssetNames }
  IN IF absent = {} THEN 0 ELSE CHOOSE i \in absent : \A j \in absent : i <= j

\* C12: once the bundle has run, a require whose id (less one leading "./" or
\* "/") is no asset key has rejected the render with the error whose message
\* quotes the id as passed, having evaluated no body for it or for any later
\* call; every call before it, whatever its "./" or "/" prefix, found its
\* asset and evaluated it.
C12_Theorem ==
  (effects.evals = 1) =>
    LET m == C12_FirstAbsent
        found == IF m = 0 THEN Len(bundle.requires) ELSE m - 1
    IN /\ Len(effects.required) = found
       /\ effects.moduleEvals = found
       /\ \A i \in 1..found : effects.required[i].id = bundle.requires[i]
       /\ m # 0 =>
            /\ promise = Rejected(Err(<<"Error:  Module not found. attempted require(\"",
                                        bundle.requires[m][1], bundle.requires[m][2], "\")">>))
            /\ result = Undef
            /\ effects.invocations = 0

\* C12 witness: "/chunk.js" was found and evaluated, then "./missing" ended
\* the render with the error naming "./missing"
C12_Witness ==
  /\ pc = "done"
  /\ bundle.requires = <<<<"./", "chunk.js">>, <<"./", "missing">>>>
  /\ effects.moduleEvals = 1
  /\ calls[1].err = Err(<<"Error:  Module not found. attempted require(\"", "./", "missing", "\")">>)

(***************************************************************************)
(* Export resolver: order of the steps                                     *)
(***************************************************************************)
C13_Rank(step) == CASE step = "unwrap" -> 1 [] step = "invoke" -> 2 [] step = "await" -> 3

\* the function the invoke step called: the raw export, or what the unwrap
\* picked from it
C13_Called ==
  IF effects.steps # <<>> /\ effects.steps[1] = "unwrap"
  THEN IF Truthy(GetProp(PropsOf(bundle.raw), "default"))
       THEN GetProp(PropsOf(bundle.raw), "default")
       ELSE FirstNotEsModule(PropsOf(bundle.raw))
  ELSE bundle.raw

\* C13: the resolver's applied steps are in the order unwrap, invoke, await,
\* each at most once (so at most three); a function is called at most once;
\* the value the call returned, or the awaitable delivered, is passed on as it
\* is, whether object or function, and is not unwrapped or called again.
C13_Theorem ==
  /\ \A i, j \in DOMAIN effects.steps : i < j => C13_Rank(effects.steps[i]) < C13_Rank(effects.steps[j])
  /\ effects.invocations <= 1
  /\ effects.invocations = Cardinality({ i \in DOMAIN effects.steps : effects.steps[i] = "invoke" })
  /\ pc \in {"resolved", "fulfilled"} =>
       IF \E i \in DOMAIN effects.steps : effects.steps[i] = "await"
       THEN result = awaited.val[1].v
       ELSE IF effects.invocations = 1
       THEN result = C13_Called.val[1].ret
       ELSE TRUE

\* C13 witness: all three steps were applied and the awaitable delivered a
\* function, which is the resolved value without having been called
C13_Witness ==
  /\ pc = "resolved"
  /\ effects.steps = <<"unwrap", "invoke", "await">>
  /\ effects.invocations = 1
  /\ result.tag = "function"

(***************************************************************************)
(* Export resolver: the resolved value                                     *)
(***************************************************************************)
\* C14 as stated: the value handed to the injector is undefined, null or a
\* string.  The resolver has no coercion, so an entry exporting the number 5,
\* or a function returning an object, hands the injector a number or an object.
C14_Original ==
  pc \in {"resolved", "fulfilled"} => result.tag \in {"undefined", "null", "string"}

\* the raw export after the pick from an object, the call of a function and the
\* delivery of an awaitable, each applied where its test passes
C14_Picked ==
  IF bundle.raw.tag \in {"object", "promise", "error"}
  THEN IF Truthy(GetProp(PropsOf(bundle.raw), "default"))
       THEN GetProp(PropsOf(bundle.raw), "default")
       ELSE FirstNotEsModule(PropsOf(bundle.raw))
  ELSE bundle.raw
C14_Returned == IF C14_Picked.tag = "function" THEN C14_Picked.val[1].ret ELSE C14_Picked
C14_Delivered == IF C14_Returned.tag = "promise" THEN C14_Returned.val[1].v ELSE C14_Returned

\* C14 amended: the value handed to the injector is never an awaitable, and is
\* otherwise exactly what the pick, the call and the await leave, of whatever
\* type: undefined, null or a string when that is what they yield, and a
\* number, object or function unchanged.
C14_Theorem ==
  pc \in {"resolved", "fulfilled"} =>
    /\ result.tag # "promise"
    /\ result = C14_Delivered
    /\ (result.tag \in {"undefined", "null", "string"}) <=> (C14_Delivered.tag \in {"undefined", "null", "string"})

\* C14 witness: the exported function returned an object and the injector is
\* handed that object
C14_Witness ==
  /\ pc = "resolved"
  /\ effects.invocations = 1
  /\ result.tag = "object"

(***************************************************************************)
(* Cache partitions                                                        *)
(***************************************************************************)
\* C15: under every interleaving of the nested compilations of one host
\* build, a compilation's cache is the object held in the host's store under
\* 'subcache ' + its own request; the host's own entries are never written by
\* a nested build; every entry of a partition was written by a compilation of
\* the partition's request, and a compilation only ever reads such entries;
\* what a compilation wrote stays in the partition for later compilations of
\* the same request.  Without a host cache there is no partition at all.
C15_Theorem ==
  /\ \A k \in DOMAIN hostCache.entries : hostCache.entries[k] = HostEntry
  /\ \A r \in DOMAIN renders :
       /\ renders[r].cache.has <=> (hostCache.enabled /\ renders[r].pc # "idle")
       /\ renders[r].cache.has =>
            /\ renders[r].cache.path = << <<"subcache ">> \o renders[r].request >>
            /\ renders[r].cache.path[1] \in DOMAIN hostCache.parts
            /\ \A k \in renders[r].wrote :
                 /\ k \in DOMAIN hostCache.parts[renders[r].cache.path[1]]
                 /\ hostCache.parts[renders[r].cache.path[1]][k].by = renders[r].request
       /\ \A v \in renders[r].seen : v.by = renders[r].request
  /\ \A key \in DOMAIN hostCache.parts :
       /\ \E r \in DOMAIN renders : renders[r].pc # "idle" /\ key = <<"subcache ">> \o renders[r].request
       /\ \A k \in DOMAIN hostCache.parts[key] : <<"subcache ">> \o hostCache.parts[key][k].by = key
  /\ \A r1, r2 \in DOMAIN renders :
       (renders[r1].cache.has /\ renders[r2].cache.has) =>
         ((renders[r1].cache.path = renders[r2].cache.path) <=> (renders[r1].request = renders[r2].request))

\* C15 witness: two partitions exist, both hold the module shared.js, the host
\* has stored its own shared.js, and a compilation that wrote nothing found
\* the module an earlier compilation of the same request had stored
C15_Witness ==
  /\ Cardinality(DOMAIN hostCache.parts) = 2
  /\ \A key \in DOMAIN hostCache.parts : <<"m", "shared.js">> \in DOMAIN hostCache.parts[key]
  /\ <<"m", "shared.js">> \in DOMAIN hostCache.entries
  /\ \E r \in DOMAIN renders : renders[r].wrote = {} /\ renders[r].seen # {}

(***************************************************************************)
(* Termination                                                             *)
(***************************************************************************)
\* C16: with a nested build that finishes and awaitables that settle, every
\* render ends: a disabled one has returned its output, any other has called
\* the callback once, with the output or with an error; unless the render
\* awaits a BrokenPromise, which calls no continuation: such a render stays
\* suspended at the await for ever and never calls the callback.
C16_Theorem ==
  /\ (pc = "start") ~>
       \/ options.disabled /\ pc = "returned" /\ returned.tag = "string"
       \/ pc = "done" /\ Len(calls) = 1
       \/ pc = "awaiting" /\ awaited.val = <<[how |-> "inert", v |-> Undef]>>
  /\ []((awaited.tag = "promise" /\ awaited.val[1].how = "inert") =>
         [](pc = "awaiting" /\ calls = <<>> /\ returned = Undef))

\* C16 witness: the entry exports customElements.whenDefined(); the pick took
\* its inherited `then`, the call returned another BrokenPromise, and the
\* render is suspended on it
C16_Witness ==
  /\ pc = "awaiting"
  /\ bundle.raw.tag = "promise" /\ bundle.raw.val[1].how = "inert"
  /\ effects.steps = <<"unwrap", "invoke", "await">>
  /\ awaited.tag = "promise" /\ awaited.val[1].how = "inert"
  /\ calls = <<>>
====
